---- MODULE Spec2Model ----
(***************************************************************************)
(* Model of the Bitcoin trading bot's decision box                         *)
(* (src/src/decision_box/trading_logic.py), of the rolling-window          *)
(* backtest engine (src/src/backtesting/backtest_engine.py), of            *)
(* run_backtest (src/main.py) and of the live trading cycle                *)
(* (src/live_trader.py).                                                   *)
(*                                                                         *)
(* Numbers.  Python floats are modelled by exact integers:                 *)
(*   - a price p stands for p * PriceUnit dollars per BTC;                 *)
(*   - a BTC quantity b stands for b / BtcScale BTC;                       *)
(*   - a dollar amount m stands for m * PriceUnit / BtcScale dollars, so   *)
(*     quantity * price is a dollar amount with no division, and           *)
(*     amount / price is exact because every member of Prices divides      *)
(*     Money(d) for the amounts d of Configs (and the quotient can be      *)
(*     halved several times);                                              *)
(*   - RSI, the fear/greed score and MACD_diff are whole numbers, ATR is   *)
(*     in tenths of a price unit and k_atr in tenths, a confidence is a    *)
(*     whole number of thousandths, a predicted price is in hundredths of  *)
(*     a price unit.                                                       *)
(* An optional value (Python None, or a float that may be NaN) is the      *)
(* empty sequence << >> or the one-element sequence <<v>>.                 *)
(***************************************************************************)
EXTENDS Integers, Sequences, FiniteSets, TLC

PriceUnit == 25 * 1000
BtcScale == 192 * 1000

\* btc <= 0.0001, for a whole number of 1/BtcScale BTC
Epsilon == BtcScale \div 10000

\* the largest number of make_decision calls in a decision-box session
MaxCalls == 3

None == << >>
NaN == << >>
Some(v) == <<v>>
Val(x) == x[1]

\* Python float comparisons: any comparison with NaN is False
Lt(x, n) == x # NaN /\ Val(x) < n
Gt(x, n) == x # NaN /\ Val(x) > n

Prices == {2, 3, 4}

\* d dollars
Money(d) == (d * BtcScale) \div PriceUnit

(***************************************************************************)
(* Configurations.  dca_amount and swing_amount are percentages of the     *)
(* initial capital chosen by the user (main.py:270-271); the first is the  *)
(* configuration of tests/test_strategies.py, the second an aggressive one *)
(* (10% DCA, 50% swing) that spends the capital in a few trades.           *)
(***************************************************************************)
Configs ==
  { [initial_capital |-> Money(10000), dca_amount |-> Money(100),
     swing_amount |-> Money(500), rsi_oversold |-> 30, k_atr |-> 20,
     fear_threshold |-> 40, swing_confidence_threshold |-> 700],
    [initial_capital |-> Money(1000), dca_amount |-> Money(100),
     swing_amount |-> Money(500), rsi_oversold |-> 30, k_atr |-> 20,
     fear_threshold |-> 40, swing_confidence_threshold |-> 700] }

VARIABLES
  config,         \* TradingDecisionBox.config
  portfolio,      \* TradingDecisionBox.portfolio
  technical,      \* the technical dict of the latest make_decision call
  sentiment,      \* the sentiment dict of the latest call
  prediction,     \* the prediction dict of the latest call
  current_price,  \* the current_price of the latest call (None before any)
  decision,       \* what the latest make_decision call returned
  calls,          \* number of make_decision calls so far
  pc,             \* position of the caller / of BacktestEngine.run
  df,             \* BacktestEngine.df: the rows (Date, Price), ascending
  pre_rows,       \* number of older rows of df that precede df[1]
  fear_greed_data,   \* BacktestEngine.fear_greed_data (None or a table)
  start_date,     \* BacktestEngine.start_date
  end_date,       \* BacktestEngine.end_date
  retrain_frequency, \* BacktestEngine.retrain_frequency
  i,              \* number of dates of test_dates the loop has consumed
  model_trained,  \* run(): model_trained
  portfolio_history, \* BacktestEngine.portfolio_history
  step,           \* what the latest loop iteration did
  train_log,      \* the price_predictor.train calls of run(), in order
  limited_data,   \* run_backtest printed the limited-data warning
  result          \* what run() returned or raised (None while running)

boxvars == <<config, portfolio, technical, sentiment, prediction,
             current_price, decision, calls>>
enginevars == <<df, pre_rows, fear_greed_data, start_date, end_date,
                retrain_frequency, i, model_trained, portfolio_history,
                step, train_log, limited_data, result>>
vars == <<boxvars, pc, enginevars>>

\* ------------------------------------------------------------------------
\* TradingDecisionBox
\* ------------------------------------------------------------------------

NewPortfolio(cfg) ==
  [cash |-> cfg.initial_capital, btc |-> 0, entry_price |-> None,
   last_dca_price |-> None, trades |-> << >>]

NoDecision == [action |-> "NONE", strategy |-> "NONE", amount |-> None]

\* cash + btc * current_price
PortfolioValue(pf, price) == pf.cash + pf.btc * price

\* portfolio_value < 0.75 * initial_capital
MutCheckCircuitBreaker(pf, cfg, price) ==
  IF 4 * PortfolioValue(pf, price) <= 3 * cfg.initial_capital
  THEN [action |-> "PAUSE", strategy |-> "CIRCUIT_BREAKER", amount |-> None]
  ELSE NoDecision

CheckCircuitBreaker(pf, cfg, price) ==
  IF 4 * PortfolioValue(pf, price) < 3 * cfg.initial_capital
  THEN [action |-> "PAUSE", strategy |-> "CIRCUIT_BREAKER", amount |-> None]
  ELSE NoDecision

\* stop_loss_price = entry_price - k * atr ; current_price < stop_loss_price
MutCheckStopLoss(pf, cfg, price, atr) ==
  IF pf.entry_price = None THEN NoDecision
  ELSE IF atr # NaN /\
          100 * price <= 100 * Val(pf.entry_price) - cfg.k_atr * Val(atr)
       THEN [action |-> "SELL", strategy |-> "STOP_LOSS",
             amount |-> Some(pf.btc)]
       ELSE NoDecision

CheckStopLoss(pf, cfg, price, atr) ==
  IF pf.entry_price = None THEN NoDecision
  ELSE IF atr # NaN /\
          100 * price < 100 * Val(pf.entry_price) - cfg.k_atr * Val(atr)
       THEN [action |-> "SELL", strategy |-> "STOP_LOSS",
             amount |-> Some(pf.btc)]
       ELSE NoDecision

\* profit_pct = (portfolio_value - initial_capital) / initial_capital
ProfitAbove(pf, cfg, price, num, den) ==
  den * (PortfolioValue(pf, price) - cfg.initial_capital)
    > num * cfg.initial_capital

MutCheckTakeProfitOversell(pf, cfg, rsi, macd_diff, predicted_price, price) ==
  IF pf.btc <= Epsilon THEN NoDecision
  ELSE IF ProfitAbove(pf, cfg, price, 3, 20) /\ Gt(rsi, 65)
       THEN [action |-> "SELL", strategy |-> "TAKE_PROFIT",
             amount |-> Some(pf.btc)]
  ELSE IF ProfitAbove(pf, cfg, price, 1, 10) /\ Gt(rsi, 70)
       THEN [action |-> "SELL", strategy |-> "TAKE_PROFIT",
             amount |-> Some(pf.btc + pf.btc \div 2)]
  ELSE IF Gt(rsi, 75) /\ Lt(macd_diff, 0)
          /\ 20 * predicted_price < 19 * (100 * price)
       THEN [action |-> "SELL", strategy |-> "TAKE_PROFIT",
             amount |-> Some(pf.btc)]
  ELSE NoDecision

MutCheckTakeProfit(pf, cfg, rsi, macd_diff, predicted_price, price) ==
  IF pf.btc <= Epsilon THEN NoDecision
  ELSE IF ProfitAbove(pf, cfg, price, 1, 10) /\ Gt(rsi, 70)
       THEN [action |-> "SELL", strategy |-> "TAKE_PROFIT",
             amount |-> Some(pf.btc \div 2)]
  ELSE IF ProfitAbove(pf, cfg, price, 3, 20) /\ Gt(rsi, 65)
       THEN [action |-> "SELL", strategy |-> "TAKE_PROFIT",
             amount |-> Some(pf.btc)]
  ELSE IF Gt(rsi, 75) /\ Lt(macd_diff, 0)
          /\ 20 * predicted_price < 19 * (100 * price)
       THEN [action |-> "SELL", strategy |-> "TAKE_PROFIT",
             amount |-> Some(pf.btc)]
  ELSE NoDecision

CheckTakeProfit(pf, cfg, rsi, macd_diff, predicted_price, price) ==
  IF pf.btc <= Epsilon THEN NoDecision
  ELSE IF ProfitAbove(pf, cfg, price, 3, 20) /\ Gt(rsi, 65)
       THEN [action |-> "SELL", strategy |-> "TAKE_PROFIT",
             amount |-> Some(pf.btc)]
  ELSE IF ProfitAbove(pf, cfg, price, 1, 10) /\ Gt(rsi, 70)
       THEN [action |-> "SELL", strategy |-> "TAKE_PROFIT",
             amount |-> Some(pf.btc \div 2)]
  ELSE IF Gt(rsi, 75) /\ Lt(macd_diff, 0)
          /\ 20 * predicted_price < 19 * (100 * price)
       THEN [action |-> "SELL", strategy |-> "TAKE_PROFIT",
             amount |-> Some(pf.btc)]
  ELSE NoDecision

MutCheckSwingEntry(pf, cfg, rsi, macd_diff, predicted_price, price, conf) ==
  IF Lt(rsi, cfg.rsi_oversold) /\ Gt(macd_diff, 0)
     /\ 100 * predicted_price > 103 * (100 * price)
     /\ conf > cfg.swing_confidence_threshold
  THEN [action |-> "BUY", strategy |-> "SWING",
        amount |-> Some(IF pf.cash < cfg.swing_amount
                        THEN pf.cash ELSE cfg.swing_amount)]
  ELSE NoDecision

CheckSwingEntry(pf, cfg, rsi, macd_diff, predicted_price, price, conf) ==
  IF Lt(rsi, cfg.rsi_oversold) /\ Gt(macd_diff, 0)
     /\ 100 * predicted_price > 103 * (100 * price)
     /\ conf > cfg.swing_confidence_threshold
  THEN IF pf.cash < cfg.swing_amount THEN NoDecision
       ELSE [action |-> "BUY", strategy |-> "SWING",
             amount |-> Some(cfg.swing_amount)]
  ELSE NoDecision

MutCheckDcaConditions(pf, cfg, rsi, fg_score) ==
  IF Lt(rsi, cfg.rsi_oversold) /\ fg_score < cfg.fear_threshold
  THEN IF pf.cash < cfg.dca_amount THEN NoDecision
       ELSE [action |-> "BUY", strategy |-> "DCA",
             amount |-> Some(cfg.dca_amount)]
  ELSE NoDecision

CheckDcaConditions(pf, cfg, rsi, fg_score) ==
  IF Lt(rsi, cfg.rsi_oversold) \/ fg_score < cfg.fear_threshold
  THEN IF pf.cash < cfg.dca_amount THEN NoDecision
       ELSE [action |-> "BUY", strategy |-> "DCA",
             amount |-> Some(cfg.dca_amount)]
  ELSE NoDecision

HoldDecision == [action |-> "HOLD", strategy |-> "HOLD", amount |-> None]

\* make_decision: the first rule that matches, in priority order
MutMakeDecision(pf, cfg, tech, sent, pred, price) ==
  LET cb == CheckCircuitBreaker(pf, cfg, price)
      sl == IF pf.btc > 0 THEN CheckStopLoss(pf, cfg, price, tech.ATR)
            ELSE NoDecision
      tp == IF pf.btc > 0
            THEN CheckTakeProfit(pf, cfg, tech.RSI, tech.MACD_diff,
                                 pred.predicted_price, price)
            ELSE NoDecision
      sw == CheckSwingEntry(pf, cfg, tech.RSI, tech.MACD_diff,
                            pred.predicted_price, price,
                            pred.direction_confidence)
      dca == CheckDcaConditions(pf, cfg, tech.RSI, sent.fear_greed_score)
  IN  IF cb # NoDecision THEN cb
      ELSE IF sw # NoDecision THEN sw
      ELSE IF sl # NoDecision THEN sl
      ELSE IF tp # NoDecision THEN tp
      ELSE IF dca # NoDecision THEN dca
      ELSE HoldDecision

MakeDecision(pf, cfg, tech, sent, pred, price) ==
  LET cb == CheckCircuitBreaker(pf, cfg, price)
      sl == IF pf.btc > 0 THEN CheckStopLoss(pf, cfg, price, tech.ATR)
            ELSE NoDecision
      tp == IF pf.btc > 0
            THEN CheckTakeProfit(pf, cfg, tech.RSI, tech.MACD_diff,
                                 pred.predicted_price, price)
            ELSE NoDecision
      sw == CheckSwingEntry(pf, cfg, tech.RSI, tech.MACD_diff,
                            pred.predicted_price, price,
                            pred.direction_confidence)
      dca == CheckDcaConditions(pf, cfg, tech.RSI, sent.fear_greed_score)
  IN  IF cb # NoDecision THEN cb
      ELSE IF sl # NoDecision THEN sl
      ELSE IF tp # NoDecision THEN tp
      ELSE IF sw # NoDecision THEN sw
      ELSE IF dca # NoDecision THEN dca
      ELSE HoldDecision

\* The portfolio after make_decision has run: the method assigns nothing
MutPortfolioAfterDecision(pf, d, price) ==
  IF d.strategy = "DCA" THEN [pf EXCEPT !.last_dca_price = Some(price)]
  ELSE pf

PortfolioAfterDecision(pf, d, price) == pf

\* execute_trade
MutExecuteTradeLastOnly(pf, d, price, date) ==
  IF d.action = "BUY" THEN
    LET btc_bought == Val(d.amount) \div price
    IN  [pf EXCEPT
           !.btc = @ + btc_bought,
           !.cash = @ - Val(d.amount),
           !.entry_price = Some(price),
           !.last_dca_price = IF d.strategy = "DCA" THEN Some(price) ELSE @,
           !.trades = <<[date |-> date, action |-> "BUY",
                         strategy |-> d.strategy, price |-> price,
                         usd |-> Val(d.amount), btc |-> btc_bought]>>]
  ELSE IF d.action = "SELL" THEN
    LET cash_received == Val(d.amount) * price
        left == pf.btc - Val(d.amount)
    IN  [pf EXCEPT
           !.cash = @ + cash_received,
           !.btc = IF left <= Epsilon THEN 0 ELSE left,
           !.entry_price = IF left <= Epsilon THEN None ELSE @,
           !.trades = Append(@, [date |-> date, action |-> "SELL",
                                 strategy |-> d.strategy, price |-> price,
                                 usd |-> cash_received,
                                 btc |-> Val(d.amount)])]
  ELSE pf

MutExecuteTradeKeepEntry(pf, d, price, date) ==
  IF d.action = "BUY" THEN
    LET btc_bought == Val(d.amount) \div price
    IN  [pf EXCEPT
           !.btc = @ + btc_bought,
           !.cash = @ - Val(d.amount),
           !.entry_price = IF @ = None THEN Some(price) ELSE @,
           !.last_dca_price = IF d.strategy = "DCA" THEN Some(price) ELSE @,
           !.trades = Append(@, [date |-> date, action |-> "BUY",
                                 strategy |-> d.strategy, price |-> price,
                                 usd |-> Val(d.amount), btc |-> btc_bought])]
  ELSE IF d.action = "SELL" THEN
    LET cash_received == Val(d.amount) * price
        left == pf.btc - Val(d.amount)
    IN  [pf EXCEPT
           !.cash = @ + cash_received,
           !.btc = IF left <= Epsilon THEN 0 ELSE left,
           !.entry_price = IF left <= Epsilon THEN None ELSE @,
           !.trades = Append(@, [date |-> date, action |-> "SELL",
                                 strategy |-> d.strategy, price |-> price,
                                 usd |-> cash_received,
                                 btc |-> Val(d.amount)])]
  ELSE pf

MutExecuteTrade(pf, d, price, date) ==
  IF d.action = "BUY" THEN
    LET btc_bought == Val(d.amount) \div price
    IN  [pf EXCEPT
           !.btc = @ + btc_bought,
           !.cash = @ - Val(d.amount),
           !.entry_price = Some(price),
           !.last_dca_price = IF d.strategy = "DCA" THEN Some(price) ELSE @,
           !.trades = Append(@, [date |-> date, action |-> "BUY",
                                 strategy |-> d.strategy, price |-> price,
                                 usd |-> Val(d.amount), btc |-> btc_bought])]
  ELSE IF d.action = "SELL" THEN
    LET cash_received == Val(d.amount) * price
        left == pf.btc - Val(d.amount)
    IN  [pf EXCEPT
           !.cash = @ + cash_received,
           !.btc = IF left <= Epsilon THEN 0 ELSE left,
           !.trades = Append(@, [date |-> date, action |-> "SELL",
                                 strategy |-> d.strategy, price |-> price,
                                 usd |-> cash_received,
                                 btc |-> Val(d.amount)])]
  ELSE pf

ExecuteTrade(pf, d, price, date) ==
  IF d.action = "BUY" THEN
    LET btc_bought == Val(d.amount) \div price
    IN  [pf EXCEPT
           !.btc = @ + btc_bought,
           !.cash = @ - Val(d.amount),
           !.entry_price = Some(price),
           !.last_dca_price = IF d.strategy = "DCA" THEN Some(price) ELSE @,
           !.trades = Append(@, [date |-> date, action |-> "BUY",
                                 strategy |-> d.strategy, price |-> price,
                                 usd |-> Val(d.amount), btc |-> btc_bought])]
  ELSE IF d.action = "SELL" THEN
    LET cash_received == Val(d.amount) * price
        left == pf.btc - Val(d.amount)
    IN  [pf EXCEPT
           !.cash = @ + cash_received,
           !.btc = IF left <= Epsilon THEN 0 ELSE left,
           !.entry_price = IF left <= Epsilon THEN None ELSE @,
           !.trades = Append(@, [date |-> date, action |-> "SELL",
                                 strategy |-> d.strategy, price |-> price,
                                 usd |-> cash_received,
                                 btc |-> Val(d.amount)])]
  ELSE pf

\* ------------------------------------------------------------------------
\* Inputs of make_decision
\* ------------------------------------------------------------------------

\* Indicator snapshots (get_latest_indicators): with fewer than 14 rows of
\* history RSI and ATR are NaN, with fewer than 26 MACD_diff is NaN.
Technicals ==
  [RSI : {Some(25), Some(30), Some(70), Some(75), Some(80)},
   ATR : {Some(0), Some(5)}, MACD_diff : {Some(-1), Some(1)}]
  \cup [RSI : {Some(25), Some(80)}, ATR : {Some(5)}, MACD_diff : {NaN}]
  \cup [RSI : {NaN}, ATR : {NaN}, MACD_diff : {NaN}]

Sentiments == [fear_greed_score : {39, 40}]

\* predicted price (hundredths of a price unit), direction confidence (0.70, 0.71)
Predictions(price) ==
  [predicted_price : {94 * price, 100 * price, 104 * price},
   direction_confidence : {700, 710}]

\* ------------------------------------------------------------------------
\* A decision-box session: a caller alternates make_decision and
\* execute_trade on one TradingDecisionBox (tests/test_strategies.py,
\* trading_logic.py main()).
\* ------------------------------------------------------------------------

NoTechnical == [RSI |-> NaN, ATR |-> NaN, MACD_diff |-> NaN]
NoSentiment == [fear_greed_score |-> 50]
NoPrediction == [predicted_price |-> 0, direction_confidence |-> 500]

\* the loop has processed no date yet; run() has not returned yet
NoStep ==
  [date |-> None, skipped |-> FALSE, retrain |-> FALSE,
   indicator_last |-> None, predict_last |-> None, train_last |-> None,
   oracle |-> "none", raw |-> NoPrediction]

NoResult ==
  [status |-> "running", error |-> "NONE", num_trades |-> 0,
   final_value |-> 0, win_rate |-> 0, buy_and_hold_return |-> 0]


InitBox ==
  /\ config \in Configs
  /\ portfolio = NewPortfolio(config)
  /\ technical = NoTechnical
  /\ sentiment = NoSentiment
  /\ prediction = NoPrediction
  /\ current_price = None
  /\ decision = NoDecision
  /\ calls = 0
  /\ pc = "idle"
  /\ df = << >>
  /\ pre_rows = 0
  /\ fear_greed_data = None
  /\ start_date = 0
  /\ end_date = 0
  /\ retrain_frequency = 0
  /\ i = 0
  /\ model_trained = FALSE
  /\ portfolio_history = << >>
  /\ step = NoStep
  /\ train_log = << >>
  /\ limited_data = FALSE
  /\ result = NoResult

MakeDecisionCall ==
  /\ pc = "idle"
  /\ calls < MaxCalls
  /\ \E price \in Prices, tech \in Technicals, sent \in Sentiments :
       \E pred \in Predictions(price) :
         /\ technical' = tech
         /\ sentiment' = sent
         /\ prediction' = pred
         /\ current_price' = Some(price)
         /\ decision' = MakeDecision(portfolio, config, tech, sent, pred, price)
         /\ portfolio' = PortfolioAfterDecision(portfolio, decision', price)
  /\ calls' = calls + 1
  /\ pc' = "decided"
  /\ UNCHANGED <<config, enginevars>>

\* the same call made again before any trade is executed
RepeatDecisionCall ==
  /\ pc = "decided"
  /\ calls < MaxCalls
  /\ decision' = MakeDecision(portfolio, config, technical, sentiment,
                              prediction, Val(current_price))
  /\ portfolio' = PortfolioAfterDecision(portfolio, decision',
                                         Val(current_price))
  /\ calls' = calls + 1
  /\ UNCHANGED <<config, technical, sentiment, prediction, current_price, pc,
                 enginevars>>

\* execute_trade of the returned decision; the caller's input dicts are
\* dead afterwards
ExecuteTradeCall ==
  /\ pc = "decided"
  /\ portfolio' = ExecuteTrade(portfolio, decision, Val(current_price), calls)
  /\ technical' = NoTechnical
  /\ sentiment' = NoSentiment
  /\ prediction' = NoPrediction
  /\ pc' = "idle"
  /\ UNCHANGED <<config, current_price, decision, calls, enginevars>>

NextBox == MakeDecisionCall \/ RepeatDecisionCall \/ ExecuteTradeCall

SpecBox == InitBox /\ [][NextBox]_vars

\* ------------------------------------------------------------------------
\* BacktestEngine.  Times are whole seconds; a date string ('%Y-%m-%d') is
\* the midnight that starts its day.
\* ------------------------------------------------------------------------

Day == 24 * 60 * 60

\* current_date.strftime('%Y-%m-%d'), str(current_date.date())
DayFloor(t) == (t \div Day) * Day

\* calculate_indicators: "Add 1 second buffer"
BufferSeconds == 1

\* rows needed by RSI and ATR, by MACD, and by create_features
MinRowsRSI == 14
MinRowsMACD == 26
MinRowsFeatures == 20

\* the largest number of rows of df that lie in or after the first day
MaxRows == 4

\* the timestamps a row may carry: midnight of day 0, one second later, and
\* the midnights of the following days
SlotTime(k) == IF k = 1 THEN 0 ELSE IF k = 2 THEN 1 ELSE (k - 2) * Day

EnginePrices == {2, 4}

RECURSIVE SeriesOf(_, _)
SeriesOf(f, k) ==
  IF k = 0 THEN << >>
  ELSE LET rest == SeriesOf(f, k - 1)
       IN  IF f[k] = 0 THEN rest
           ELSE Append(rest, [Date |-> SlotTime(k), Price |-> f[k]])

\* price series: strictly ascending dates, positive prices, at least one row
AllSeries ==
  {SeriesOf(f, MaxRows) : f \in [1..MaxRows -> EnginePrices \cup {0}]}
    \ {<< >>}

\* older rows, all dated before day 0
PreRows == {0, 12, 30}

StartDates == {0, Day}
EndDate == DayFloor(SlotTime(MaxRows))
RetrainFrequencies == {0, 2}

\* the cached Fear & Greed table: absent, or one record dated day 1
FearGreedTables == {None, <<[timestamp |-> Day, value |-> 20]>>}

\* the configuration of a backtest (10% DCA, 50% swing)
EngineConfigs == {c \in Configs : c.initial_capital = Money(1000)}

\* self.df[(Date >= start_date) & (Date <= end_date)]['Date'].tolist()
TestDates(d, s, e) ==
  LET sel == SelectSeq(d, LAMBDA r : r.Date >= s /\ r.Date <= e)
  IN  [k \in 1..Len(sel) |-> sel[k].Date]

HasRowAt(d, t) == \E k \in 1..Len(d) : d[k].Date = t

\* df[df['Date'] == t]['Price'].values[0]
PriceAt(d, t) ==
  d[CHOOSE k \in 1..Len(d) :
      d[k].Date = t /\ \A j \in 1..(k - 1) : d[j].Date # t].Price

\* the rows with Date <= cutoff, and the date of the latest of them
RowsUpTo(d, cutoff) == {k \in 1..Len(d) : d[k].Date <= cutoff}

LastDate(d, rows) ==
  IF rows = {} THEN None
  ELSE Some(CHOOSE t \in {d[k].Date : k \in rows} :
              \A j \in rows : d[j].Date <= t)

\* calculate_indicators: df_past = df[Date <= current_date + 1 second]
IndicatorRows(d, date_str) == RowsUpTo(d, date_str + BufferSeconds)

\* create_features: df_past = df[Date <= current_date], at least 20 rows
FeatureRows(d, date_str) == RowsUpTo(d, date_str)

EnoughFeatureRows(d, pre, date_str) ==
  pre + Cardinality(FeatureRows(d, date_str)) >= MinRowsFeatures

\* price_predictor.train(df, cutoff): raises with too few rows, and may
\* raise later (no rolling window, classifier); TRUE when it returns
TrainOutcomes(d, pre, cutoff) ==
  IF EnoughFeatureRows(d, pre, cutoff) THEN {TRUE, FALSE} ELSE {FALSE}

\* the fallback prediction: the current price, confidence 0.5
MutFallbackPrediction(price) ==
  [predicted_price |-> 0, direction_confidence |-> 500]

FallbackPrediction(price) ==
  [predicted_price |-> 100 * price, direction_confidence |-> 500]

EnginePredictions(price) ==
  { [predicted_price |-> 104 * price, direction_confidence |-> 710],
    [predicted_price |-> 94 * price, direction_confidence |-> 700] }

\* the prediction of one step before the multiplier, and how it came about:
\* no predict() without a trained model ("untrained"), predict() raised
\* ("failed", always so with too few rows), or predict() returned ("ok")
MutPredictOutcomes(trained, d, pre, date_str, price) ==
  {[oracle |-> "failed", value |-> FallbackPrediction(price)]}
  \cup (IF EnoughFeatureRows(d, pre, date_str)
        THEN {[oracle |-> "ok", value |-> v] : v \in EnginePredictions(price)}
        ELSE {})

PredictOutcomes(trained, d, pre, date_str, price) ==
  IF ~trained
  THEN {[oracle |-> "untrained", value |-> FallbackPrediction(price)]}
  ELSE {[oracle |-> "failed", value |-> FallbackPrediction(price)]}
       \cup (IF EnoughFeatureRows(d, pre, date_str)
             THEN {[oracle |-> "ok", value |-> v] :
                     v \in EnginePredictions(price)}
             ELSE {})

\* get_latest_indicators on n rows of history
EngineTechnicals(n) ==
  IF n < MinRowsRSI THEN {NoTechnical}
  ELSE IF n < MinRowsMACD
  THEN { [RSI |-> Some(25), ATR |-> Some(0), MACD_diff |-> NaN],
         [RSI |-> Some(80), ATR |-> Some(5), MACD_diff |-> NaN] }
  ELSE { [RSI |-> Some(25), ATR |-> Some(0), MACD_diff |-> Some(1)],
         [RSI |-> Some(80), ATR |-> Some(0), MACD_diff |-> Some(-1)],
         [RSI |-> Some(50), ATR |-> Some(5), MACD_diff |-> Some(1)] }

Abs(x) == IF x < 0 THEN 0 - x ELSE x

\* RSI proxy of the Fear & Greed score
RsiProxy(rsi) ==
  IF Lt(rsi, 30) THEN 20
  ELSE IF Lt(rsi, 40) THEN 35
  ELSE IF Gt(rsi, 70) THEN 80
  ELSE IF Gt(rsi, 60) THEN 65
  ELSE 50

\* _get_sentiment_backtest: the closest record within one day, else the proxy
GetSentimentBacktest(tech, date_str, fg) ==
  LET matches == {k \in 1..Len(fg) :
                    /\ fg[k].timestamp >= date_str - Day
                    /\ fg[k].timestamp <= date_str + Day}
      dist(k) == Abs(fg[k].timestamp - date_str)
      closest == CHOOSE k \in matches :
                   \A j \in matches :
                     dist(k) < dist(j) \/ (dist(k) = dist(j) /\ k <= j)
  IN  [fear_greed_score |->
         IF matches # {} THEN fg[closest].value ELSE RsiProxy(tech.RSI)]

\* calculate_fg_confidence_multiplier, in tenths
FgConfidenceMultiplier(fg_score) ==
  IF fg_score < 25 THEN 12
  ELSE IF fg_score < 40 THEN 11
  ELSE IF fg_score <= 60 THEN 10
  ELSE IF fg_score <= 75 THEN 9
  ELSE 7

\* sentiment.get('value', 50)
SentimentValue(sent) == IF "value" \in DOMAIN sent THEN sent.value ELSE 50

\* adjusted_confidence = min(1.0, original_confidence * fg_multiplier)
ApplyMultiplier(pred, sent) ==
  LET adjusted == (pred.direction_confidence
                     * FgConfidenceMultiplier(SentimentValue(sent))) \div 10
  IN  [pred EXCEPT !.direction_confidence =
                      IF adjusted > 1000 THEN 1000 ELSE adjusted]

\* calculate_metrics followed by _send_gmail_summary(metrics, current_price)
Raised(e) == [NoResult EXCEPT !.status = "error", !.error = e]

\* the win-rate loop of calculate_metrics: a SELL is paired with the last
\* BUY if no SELL came after that BUY; the list of (buy, sell) prices
RECURSIVE BuySellPairs(_, _, _)
BuySellPairs(trades, k, last_buy_price) ==
  IF k > Len(trades) THEN << >>
  ELSE IF trades[k].action = "BUY"
  THEN BuySellPairs(trades, k + 1, Some(trades[k].price))
  ELSE IF trades[k].action = "SELL" /\ last_buy_price # None
  THEN <<[buy |-> Val(last_buy_price), sell |-> trades[k].price]>>
         \o BuySellPairs(trades, k + 1, None)
  ELSE BuySellPairs(trades, k + 1, last_buy_price)

\* a ratio in thousandths
Ratio(num, den) == (1000 * num) \div den

\* win_rate: the share of pairs with profit > 0, and 0 without pairs
WinRateOf(pairs) ==
  IF pairs = << >> THEN 0
  ELSE Ratio(Cardinality({k \in 1..Len(pairs) : pairs[k].sell > pairs[k].buy}),
             Len(pairs))

MutWinRate(trades) ==
  WinRateOf(BuySellPairs(trades, 2, None))

WinRate(trades) == WinRateOf(BuySellPairs(trades, 1, None))

\* bah_return = (final_price - initial_price) / initial_price
MutBuyAndHoldReturn(initial_price, final_price) ==
  Ratio(final_price - initial_price, final_price)

BuyAndHoldReturn(initial_price, final_price) ==
  Ratio(final_price - initial_price, initial_price)

\* _empty_metrics: the result of a run without trades
EmptyMetrics(pf, final_price) ==
  [NoResult EXCEPT !.status = "metrics",
                   !.final_value = PortfolioValue(pf, final_price)]

RunResult(d, pf, s, e, cp) ==
  IF ~HasRowAt(d, e) THEN Raised("IndexError")
  ELSE LET final_price == PriceAt(d, e)
       IN  IF Len(pf.trades) = 0
           THEN IF cp = None THEN Raised("UnboundLocalError")
                ELSE EmptyMetrics(pf, final_price)
           ELSE IF ~HasRowAt(d, s) THEN Raised("IndexError")
           ELSE IF cp = None THEN Raised("UnboundLocalError")
           ELSE [NoResult EXCEPT
                   !.status = "metrics",
                   !.num_trades = Len(pf.trades),
                   !.final_value = PortfolioValue(pf, final_price),
                   !.win_rate = WinRate(pf.trades),
                   !.buy_and_hold_return =
                     BuyAndHoldReturn(PriceAt(d, s), final_price)]

\* the loop leaves on a PAUSE decision ("break") and on no other
MutStopsRun(d) == FALSE

StopsRun(d) == d.action = "PAUSE"

\* the retraining test of iteration idx (0-based)
MutRetrainDue(freq, idx) == freq > 0 /\ idx % freq = 0

RetrainDue(freq, idx) == freq > 0 /\ idx > 0 /\ idx % freq = 0

\* get_portfolio_summary / portfolio_history.append
MutHistoryEntry(pf, price, date) ==
  [date |-> date, value |-> pf.cash, cash |-> pf.cash, btc |-> pf.btc,
   price |-> price]

HistoryEntry(pf, price, date) ==
  [date |-> date, value |-> PortfolioValue(pf, price), cash |-> pf.cash,
   btc |-> pf.btc, price |-> price]

Init ==
  /\ config \in EngineConfigs
  /\ portfolio = NewPortfolio(config)
  /\ technical = NoTechnical
  /\ sentiment = NoSentiment
  /\ prediction = NoPrediction
  /\ current_price = None
  /\ decision = NoDecision
  /\ calls = 0
  /\ pc = "start"
  /\ df \in AllSeries
  /\ pre_rows \in PreRows
  /\ fear_greed_data \in FearGreedTables
  /\ start_date \in StartDates
  /\ end_date = EndDate
  /\ retrain_frequency \in RetrainFrequencies
  /\ i = 0
  /\ model_trained = FALSE
  /\ portfolio_history = << >>
  /\ step = NoStep
  /\ train_log = << >>
  /\ limited_data = FALSE
  /\ result = NoResult

\* run(): test_dates and the initial training
TrainInitial ==
  /\ pc = "start"
  /\ \E ok \in TrainOutcomes(df, pre_rows, DayFloor(start_date)) :
       /\ model_trained' = ok
       /\ train_log' = <<[index |-> -1, cutoff |-> DayFloor(start_date),
                          ok |-> ok]>>
  /\ pc' = IF TestDates(df, start_date, end_date) = << >>
           THEN "metrics" ELSE "loop"
  /\ UNCHANGED <<boxvars, df, pre_rows, fear_greed_data, start_date, end_date,
                 retrain_frequency, i, portfolio_history, step, limited_data,
                 result>>

\* run(): one iteration of the loop over test_dates
BacktestStep ==
  /\ pc = "loop"
  /\ LET dates == TestDates(df, start_date, end_date)
         current_date == dates[i + 1]
         retrain == RetrainDue(retrain_frequency, i)
         current_date_str == DayFloor(current_date)
         price == PriceAt(df, current_date)
         past == IndicatorRows(df, current_date_str)
         found == \E k \in past : df[k].Date = current_date_str
         after == IF i + 1 = Len(dates) THEN "metrics" ELSE "loop"
     IN  \E ok \in (IF retrain
                    THEN TrainOutcomes(df, pre_rows, current_date_str)
                    ELSE {FALSE}) :
           LET trained == model_trained \/ ok
               done == [NoStep EXCEPT
                          !.date = Some(current_date),
                          !.skipped = ~found,
                          !.retrain = retrain,
                          !.indicator_last = LastDate(df, past),
                          !.predict_last =
                            IF found /\ trained
                            THEN LastDate(df, FeatureRows(df, current_date_str))
                            ELSE None,
                          !.train_last =
                            IF retrain
                            THEN LastDate(df, FeatureRows(df, current_date_str))
                            ELSE None]
           IN  /\ model_trained' = trained
               /\ train_log' =
                    IF retrain
                    THEN Append(train_log, [index |-> i,
                                            cutoff |-> current_date_str,
                                            ok |-> ok])
                    ELSE train_log
               /\ current_price' = Some(price)
               /\ i' = i + 1
               /\ IF ~found
                  THEN /\ step' = done
                       /\ pc' = after
                       /\ UNCHANGED <<portfolio, technical, sentiment,
                                      prediction, decision, calls,
                                      portfolio_history>>
                  ELSE \E tech \in EngineTechnicals(pre_rows + Cardinality(past)) :
                       \E out \in PredictOutcomes(trained, df, pre_rows,
                                                  current_date_str, price) :
                         LET sent == GetSentimentBacktest(tech, current_date_str,
                                                          fear_greed_data)
                             pred == ApplyMultiplier(out.value, sent)
                             d == MakeDecision(portfolio, config, tech, sent,
                                               pred, price)
                             pf == ExecuteTrade(portfolio, d, price,
                                                current_date_str)
                         IN  /\ step' = [done EXCEPT !.oracle = out.oracle,
                                                      !.raw = out.value]
                             /\ technical' = tech
                             /\ sentiment' = sent
                             /\ prediction' = pred
                             /\ decision' = d
                             /\ calls' = calls + 1
                             /\ IF StopsRun(d)
                                THEN /\ pc' = "metrics"
                                     /\ UNCHANGED <<portfolio, portfolio_history>>
                                ELSE /\ portfolio' = pf
                                     /\ portfolio_history' =
                                          Append(portfolio_history,
                                                 HistoryEntry(pf, price,
                                                              current_date))
                                     /\ pc' = after
  /\ UNCHANGED <<config, df, pre_rows, fear_greed_data, start_date, end_date,
                 retrain_frequency, limited_data, result>>

\* run(): calculate_metrics, the summary mail and the return
FinishRun ==
  /\ pc = "metrics"
  /\ result' = RunResult(df, portfolio, start_date, end_date, current_price)
  /\ pc' = IF result'.status = "metrics" THEN "done" ELSE "error"
  /\ UNCHANGED <<boxvars, df, pre_rows, fear_greed_data, start_date, end_date,
                 retrain_frequency, i, model_trained, portfolio_history, step,
                 train_log, limited_data>>

Next == TrainInitial \/ BacktestStep \/ FinishRun

Spec == Init /\ [][Next]_vars

\* A backtest on a series that is not well formed.  BacktestEngine.__init__
\* copies the frame it is given; the loader repairs what it reads
\* (drop_duplicates, sort_values) and load_clean_data reads the processed
\* file back without any check.
Reversed(s) == [k \in 1..Len(s) |-> s[Len(s) + 1 - k]]

\* descending dates, or the first timestamp twice
MalformedSeries ==
  {Reversed(s) : s \in {t \in AllSeries : Len(t) >= 2}}
    \cup {<<s[1]>> \o s : s \in AllSeries}

InitMalformed ==
  /\ config \in EngineConfigs
  /\ portfolio = NewPortfolio(config)
  /\ technical = NoTechnical
  /\ sentiment = NoSentiment
  /\ prediction = NoPrediction
  /\ current_price = None
  /\ decision = NoDecision
  /\ calls = 0
  /\ pc = "start"
  /\ df \in MalformedSeries
  /\ pre_rows = 30
  /\ fear_greed_data = None
  /\ start_date = 0
  /\ end_date = EndDate
  /\ retrain_frequency = 0
  /\ i = 0
  /\ model_trained = FALSE
  /\ portfolio_history = << >>
  /\ step = NoStep
  /\ train_log = << >>
  /\ limited_data = FALSE
  /\ result = NoResult

SpecMalformed == InitMalformed /\ [][Next]_vars

\* ------------------------------------------------------------------------
\* A decision box built from a config dict that lacks one key.
\* ------------------------------------------------------------------------

\* the keys read with self.config[...] (swing_confidence_threshold is read
\* with .get and a default)
RequiredKeys ==
  {"initial_capital", "dca_amount", "swing_amount", "rsi_oversold", "k_atr",
   "fear_threshold"}

Without(cfg, key) == [k \in DOMAIN cfg \ {key} |-> cfg[k]]

PartialConfigs ==
  {Without(c, key) : c \in {x \in Configs : x.initial_capital = Money(10000)},
                     key \in RequiredKeys}

Has(cfg, key) == key \in DOMAIN cfg

\* no TradingDecisionBox yet
NoPortfolio ==
  [cash |-> 0, btc |-> 0, entry_price |-> None, last_dca_price |-> None,
   trades |-> << >>]

\* the key whose lookup raises KeyError in make_decision, "NONE" if the call
\* returns; the checks run in priority order and each reads its keys when it
\* gets to them
KeyErrorInDca(pf, cfg, tech, sent) ==
  IF ~Has(cfg, "rsi_oversold") THEN "rsi_oversold"
  ELSE IF ~Has(cfg, "fear_threshold") THEN "fear_threshold"
  ELSE IF (Lt(tech.RSI, cfg.rsi_oversold)
           \/ sent.fear_greed_score < cfg.fear_threshold)
          /\ ~Has(cfg, "dca_amount")
       THEN "dca_amount"
  ELSE "NONE"

KeyErrorInSwing(pf, cfg, tech, sent, pred, price) ==
  IF ~Has(cfg, "rsi_oversold") THEN "rsi_oversold"
  ELSE IF /\ Lt(tech.RSI, cfg.rsi_oversold)
          /\ Gt(tech.MACD_diff, 0)
          /\ 100 * pred.predicted_price > 103 * (100 * price)
          /\ pred.direction_confidence > cfg.swing_confidence_threshold
       THEN IF ~Has(cfg, "swing_amount") THEN "swing_amount"
            ELSE IF pf.cash < cfg.swing_amount
                 THEN KeyErrorInDca(pf, cfg, tech, sent)
                 ELSE "NONE"
  ELSE KeyErrorInDca(pf, cfg, tech, sent)

KeyErrorIn(pf, cfg, tech, sent, pred, price) ==
  IF ~Has(cfg, "initial_capital") THEN "initial_capital"
  ELSE IF CheckCircuitBreaker(pf, cfg, price) # NoDecision THEN "NONE"
  ELSE IF pf.btc > 0
       THEN IF pf.entry_price # None /\ ~Has(cfg, "k_atr") THEN "k_atr"
            ELSE IF CheckStopLoss(pf, cfg, price, tech.ATR) # NoDecision
                 THEN "NONE"
            ELSE IF CheckTakeProfit(pf, cfg, tech.RSI, tech.MACD_diff,
                                    pred.predicted_price, price) # NoDecision
                 THEN "NONE"
            ELSE KeyErrorInSwing(pf, cfg, tech, sent, pred, price)
  ELSE KeyErrorInSwing(pf, cfg, tech, sent, pred, price)

InitConfig ==
  /\ config \in PartialConfigs
  /\ portfolio = NoPortfolio
  /\ technical = NoTechnical
  /\ sentiment = NoSentiment
  /\ prediction = NoPrediction
  /\ current_price = None
  /\ decision = NoDecision
  /\ calls = 0
  /\ pc = "new"
  /\ df = << >>
  /\ pre_rows = 0
  /\ fear_greed_data = None
  /\ start_date = 0
  /\ end_date = 0
  /\ retrain_frequency = 0
  /\ i = 0
  /\ model_trained = FALSE
  /\ portfolio_history = << >>
  /\ step = NoStep
  /\ train_log = << >>
  /\ limited_data = FALSE
  /\ result = NoResult

\* TradingDecisionBox(config): reads config['initial_capital'] only
Construct ==
  /\ pc = "new"
  /\ IF Has(config, "initial_capital")
     THEN portfolio' = NewPortfolio(config) /\ pc' = "idle"
     ELSE portfolio' = portfolio /\ pc' = "construct_error"
  /\ UNCHANGED <<config, technical, sentiment, prediction, current_price,
                 decision, calls, enginevars>>

\* make_decision on the partial config: KeyError, or the decision
MakeDecisionChecked ==
  /\ pc = "idle"
  /\ calls < MaxCalls
  /\ \E price \in Prices, tech \in Technicals, sent \in Sentiments :
       \E pred \in Predictions(price) :
         /\ technical' = tech
         /\ sentiment' = sent
         /\ prediction' = pred
         /\ current_price' = Some(price)
         /\ IF KeyErrorIn(portfolio, config, tech, sent, pred, price) # "NONE"
            THEN /\ decision' = NoDecision
                 /\ pc' = "key_error"
            ELSE /\ decision' = MakeDecision(portfolio, config, tech, sent,
                                             pred, price)
                 /\ pc' = "decided"
  /\ calls' = calls + 1
  /\ UNCHANGED <<config, portfolio, enginevars>>

NextConfig == Construct \/ MakeDecisionChecked \/ ExecuteTradeCall

SpecConfig == InitConfig /\ [][NextConfig]_vars

\* ------------------------------------------------------------------------
\* The trade log of a run and the metrics computed from it: the decision and
\* execution part of the loop body of run() over arbitrary indicator,
\* sentiment and prediction inputs, then the part of calculate_metrics that
\* reads the portfolio alone.
\* ------------------------------------------------------------------------

MaxLedgerSteps == 8

LedgerConfig ==
  [initial_capital |-> Money(1000), dca_amount |-> Money(100),
   swing_amount |-> Money(500), rsi_oversold |-> 30, k_atr |-> 20,
   fear_threshold |-> 40, swing_confidence_threshold |-> 700]

InitLedger ==
  /\ config = LedgerConfig
  /\ portfolio = NewPortfolio(config)
  /\ technical = NoTechnical
  /\ sentiment = NoSentiment
  /\ prediction = NoPrediction
  /\ current_price = None
  /\ decision = NoDecision
  /\ calls = 0
  /\ pc = "trading"
  /\ df = << >>
  /\ pre_rows = 0
  /\ fear_greed_data = None
  /\ start_date = 0
  /\ end_date = 0
  /\ retrain_frequency = 0
  /\ i = 0
  /\ model_trained = FALSE
  /\ portfolio_history = << >>
  /\ step = NoStep
  /\ train_log = << >>
  /\ limited_data = FALSE
  /\ result = NoResult

\* the indicator rows of the run: oversold or overbought, no volatility
LedgerTechnicals ==
  { [RSI |-> Some(25), ATR |-> Some(0), MACD_diff |-> Some(-1)],
    [RSI |-> Some(80), ATR |-> Some(0), MACD_diff |-> Some(1)] }

\* one loop iteration of a run without a Fear & Greed table and without a
\* trained model: RSI proxy, fallback prediction, make_decision,
\* execute_trade; PAUSE leaves the loop
LedgerStep ==
  /\ pc = "trading"
  /\ calls < MaxLedgerSteps
  /\ \E price \in Prices, tech \in LedgerTechnicals :
       LET sent == GetSentimentBacktest(tech, calls * Day, None)
           pred == ApplyMultiplier(FallbackPrediction(price), sent)
           d == MakeDecision(portfolio, config, tech, sent, pred, price)
       IN  /\ decision' = d
           /\ current_price' = Some(price)
           /\ IF StopsRun(d)
              THEN portfolio' = portfolio /\ pc' = "closing"
              ELSE /\ portfolio' = ExecuteTrade(portfolio, d, price, calls)
                   /\ pc' = "trading"
  /\ calls' = calls + 1
  /\ UNCHANGED <<config, technical, sentiment, prediction, enginevars>>

\* calculate_metrics: the entries computed from the portfolio and its trades
LedgerMetrics(pf, final_price) ==
  IF Len(pf.trades) = 0 THEN EmptyMetrics(pf, final_price)
  ELSE [NoResult EXCEPT !.status = "metrics",
                        !.num_trades = Len(pf.trades),
                        !.final_value = PortfolioValue(pf, final_price),
                        !.win_rate = WinRate(pf.trades)]

CloseLedger ==
  /\ pc \in {"trading", "closing"}
  /\ current_price # None
  /\ result' = LedgerMetrics(portfolio, Val(current_price))
  /\ pc' = "closed"
  /\ UNCHANGED <<boxvars, df, pre_rows, fear_greed_data, start_date, end_date,
                 retrain_frequency, i, model_trained, portfolio_history, step,
                 train_log, limited_data>>

NextLedger == LedgerStep \/ CloseLedger

SpecLedger == InitLedger /\ [][NextLedger]_vars

\* ------------------------------------------------------------------------
\* main.py run_backtest: the date range of the last N months, clamped to the
\* data, then BacktestEngine(df, config, start, end).run().
\* ------------------------------------------------------------------------

\* run_backtest(months=6): the range is months * 30 days long
Months == 6
DaysPerMonth == 30

\* df['Date'].min() and df['Date'].max()
MinDate(d) == CHOOSE t \in {d[k].Date : k \in 1..Len(d)} :
                \A k \in 1..Len(d) : t <= d[k].Date
MaxDate(d) == CHOOSE t \in {d[k].Date : k \in 1..Len(d)} :
                \A k \in 1..Len(d) : d[k].Date <= t

InitMain ==
  /\ config \in EngineConfigs
  /\ portfolio = NewPortfolio(config)
  /\ technical = NoTechnical
  /\ sentiment = NoSentiment
  /\ prediction = NoPrediction
  /\ current_price = None
  /\ decision = NoDecision
  /\ calls = 0
  /\ pc = "main"
  /\ df \in AllSeries
  /\ pre_rows = 0
  /\ fear_greed_data \in FearGreedTables
  /\ start_date = 0
  /\ end_date = 0
  /\ retrain_frequency \in RetrainFrequencies
  /\ i = 0
  /\ model_trained = FALSE
  /\ portfolio_history = << >>
  /\ step = NoStep
  /\ train_log = << >>
  /\ limited_data = FALSE
  /\ result = NoResult

\* run_backtest up to the construction of the engine: the engine receives
\* str(start_date.date()) and str(end_date.date())
RunBacktest ==
  /\ pc = "main"
  /\ LET last == MaxDate(df)
         requested == last - Months * DaysPerMonth * Day
         clamped == requested < MinDate(df)
         first == IF clamped THEN MinDate(df) ELSE requested
     IN  /\ limited_data' = clamped
         /\ start_date' = DayFloor(first)
         /\ end_date' = DayFloor(last)
  /\ pc' = "start"
  /\ UNCHANGED <<boxvars, df, pre_rows, fear_greed_data, retrain_frequency, i,
                 model_trained, portfolio_history, step, train_log, result>>

NextMain == RunBacktest \/ Next

SpecMain == InitMain /\ [][NextMain]_vars

\* ------------------------------------------------------------------------
\* live_trader.py: LiveTrader.trading_cycle, called every check interval.
\* ------------------------------------------------------------------------

\* LiveTrader.config with the defaults of the environment variables
LiveConfig ==
  [initial_capital |-> Money(10000), dca_amount |-> Money(100),
   swing_amount |-> Money(500), rsi_oversold |-> 30, k_atr |-> 20,
   fear_threshold |-> 40, swing_confidence_threshold |-> 700]

\* the balances the exchange account may report: USDT and BTC
LiveCash == {Money(10000)}
LiveBtc == {0, 1920}

\* the indicators of a cycle: oversold or overbought
LiveTechnicals == {t \in Technicals : t.RSI \in {Some(25), Some(80)}}

\* _get_portfolio_state: the account balances with the current price as
\* entry price, or the default state when the balances cannot be fetched
MutGetPortfolioState(prev, fetched, cash, btc, price, initial_capital) ==
  IF fetched
  THEN [cash |-> cash, btc |-> btc, last_dca_price |-> Some(price),
        entry_price |-> IF prev.btc > 0 /\ prev.entry_price # None
                        THEN prev.entry_price ELSE Some(price),
        trades |-> << >>]
  ELSE [cash |-> initial_capital, btc |-> 0, last_dca_price |-> Some(0),
        entry_price |-> Some(0), trades |-> << >>]

GetPortfolioState(prev, fetched, cash, btc, price, initial_capital) ==
  IF fetched
  THEN [cash |-> cash, btc |-> btc, last_dca_price |-> Some(price),
        entry_price |-> Some(price), trades |-> << >>]
  ELSE [cash |-> initial_capital, btc |-> 0, last_dca_price |-> Some(0),
        entry_price |-> Some(0), trades |-> << >>]

InitLive ==
  /\ config = LiveConfig
  /\ portfolio = NewPortfolio(config)
  /\ technical = NoTechnical
  /\ sentiment = NoSentiment
  /\ prediction = NoPrediction
  /\ current_price = None
  /\ decision = NoDecision
  /\ calls = 0
  /\ pc = "live"
  /\ df = << >>
  /\ pre_rows = 0
  /\ fear_greed_data = None
  /\ start_date = 0
  /\ end_date = 0
  /\ retrain_frequency = 0
  /\ i = 0
  /\ model_trained = FALSE
  /\ portfolio_history = << >>
  /\ step = NoStep
  /\ train_log = << >>
  /\ limited_data = FALSE
  /\ result = NoResult

\* trading_cycle that returns early: no indicators yet, no decision
SkippedCycle ==
  /\ pc = "live"
  /\ \E price \in Prices : current_price' = Some(price)
  /\ technical' = NoTechnical
  /\ sentiment' = NoSentiment
  /\ prediction' = NoPrediction
  /\ decision' = NoDecision
  /\ UNCHANGED <<config, portfolio, calls, pc, enginevars>>

\* trading_cycle: price, indicators, portfolio state, prediction,
\* make_decision on the rebuilt portfolio; the order goes to the exchange
TradingCycle ==
  /\ pc = "live"
  /\ \E price \in Prices, tech \in LiveTechnicals, sent \in Sentiments,
        fetched \in BOOLEAN, cash \in LiveCash, btc \in LiveBtc :
       \E pred \in Predictions(price) :
         LET pf == GetPortfolioState(portfolio, fetched, cash, btc, price,
                                     config.initial_capital)
         IN  /\ current_price' = Some(price)
             /\ technical' = tech
             /\ sentiment' = sent
             /\ prediction' = pred
             /\ portfolio' = pf
             /\ decision' = MakeDecision(pf, config, tech, sent, pred, price)
  /\ UNCHANGED <<config, calls, pc, enginevars>>

NextLive == SkippedCycle \/ TradingCycle

SpecLive == InitLive /\ [][NextLive]_vars

\* ------------------------------------------------------------------------
\* Properties of make_decision and execute_trade (checked under SpecBox).
\* In a state with pc = "decided" the variables hold the arguments of the
\* latest make_decision call, the portfolio it ran on and what it returned.
\* ------------------------------------------------------------------------

Decided == pc = "decided"
Price == Val(current_price)
PV == portfolio.cash + portfolio.btc * Price

BreakerCond == 4 * PV < 3 * config.initial_capital

StopCond ==
  /\ portfolio.btc > 0
  /\ portfolio.entry_price # None
  /\ technical.ATR # NaN
  /\ 100 * Price < 100 * Val(portfolio.entry_price)
                      - config.k_atr * Val(technical.ATR)

ProfitOver15 == 20 * (PV - config.initial_capital) > 3 * config.initial_capital
ProfitOver10 == 10 * (PV - config.initial_capital) > config.initial_capital

TakeProfitCond ==
  /\ portfolio.btc > Epsilon
  /\ \/ ProfitOver15 /\ Gt(technical.RSI, 65)
     \/ ProfitOver10 /\ Gt(technical.RSI, 70)
     \/ /\ Gt(technical.RSI, 75)
        /\ Lt(technical.MACD_diff, 0)
        /\ 100 * prediction.predicted_price < 95 * (100 * Price)

SwingSignals ==
  /\ Lt(technical.RSI, config.rsi_oversold)
  /\ Gt(technical.MACD_diff, 0)
  /\ 100 * prediction.predicted_price > 103 * (100 * Price)
  /\ prediction.direction_confidence > config.swing_confidence_threshold

Oversold == Lt(technical.RSI, config.rsi_oversold)
Fear == sentiment.fear_greed_score < config.fear_threshold

IsDcaBuy ==
  decision = [action |-> "BUY", strategy |-> "DCA",
              amount |-> Some(config.dca_amount)]
IsSwingBuy ==
  decision = [action |-> "BUY", strategy |-> "SWING",
              amount |-> Some(config.swing_amount)]
IsStopLossSell ==
  decision = [action |-> "SELL", strategy |-> "STOP_LOSS",
              amount |-> Some(portfolio.btc)]
IsPause == decision.action = "PAUSE" /\ decision.strategy = "CIRCUIT_BREAKER"

\* C1: make_decision returns PAUSE (strategy CIRCUIT_BREAKER) if and only if
\* cash + btc * current_price < 0.75 * initial_capital, whatever the other
\* inputs and whether or not BTC is held; at exactly 75% it does not pause.
C1_PauseIffBelow75 ==
  Decided =>
    /\ IsPause <=> BreakerCond
    /\ decision.action = "PAUSE" => IsPause
    /\ 4 * PV = 3 * config.initial_capital => decision.action # "PAUSE"

\* a position is held, the value is below 75% and the call returned PAUSE
C1_Witness == Decided /\ portfolio.btc > 0 /\ BreakerCond /\ IsPause

\* C2: the decision is that of the first rule that matches in the order
\* Circuit Breaker, Stop-Loss, Take-Profit, Swing, DCA, HOLD; Stop-Loss wins
\* over Swing, and Swing wins over DCA when cash >= swing_amount.
C2_FirstMatchWins ==
  Decided =>
    /\ decision.strategy =
         IF BreakerCond THEN "CIRCUIT_BREAKER"
         ELSE IF StopCond THEN "STOP_LOSS"
         ELSE IF portfolio.btc > 0 /\ TakeProfitCond THEN "TAKE_PROFIT"
         ELSE IF SwingSignals /\ portfolio.cash >= config.swing_amount
              THEN "SWING"
         ELSE IF (Oversold \/ Fear) /\ portfolio.cash >= config.dca_amount
              THEN "DCA"
         ELSE "HOLD"
    /\ (~BreakerCond /\ StopCond /\ SwingSignals) => IsStopLossSell
    /\ (~BreakerCond /\ ~StopCond /\ ~TakeProfitCond /\ SwingSignals
        /\ (Oversold \/ Fear) /\ portfolio.cash >= config.swing_amount)
         => IsSwingBuy

\* the stop-loss and the swing conditions hold together, with cash for a swing
C2_Witness ==
  /\ Decided /\ ~BreakerCond /\ StopCond /\ SwingSignals
  /\ portfolio.cash >= config.swing_amount
  /\ IsStopLossSell

\* C3: in every state reached from the initial portfolio by make_decision and
\* execute_trade, btc = 0 exactly when entry_price is None, and cash >= 0.
C3_PortfolioInvariant ==
  /\ portfolio.btc = 0 <=> portfolio.entry_price = None
  /\ portfolio.btc >= 0
  /\ portfolio.cash >= 0

\* a position was bought and then sold completely
C3_Witness ==
  /\ pc = "idle"
  /\ Len(portfolio.trades) >= 2
  /\ portfolio.trades[Len(portfolio.trades)].action = "SELL"
  /\ portfolio.btc = 0
  /\ portfolio.entry_price = None

C8_SwingSuppressed ==
  (Decided /\ SwingSignals /\ portfolio.cash < config.swing_amount) =>
    /\ decision.strategy # "SWING"
    /\ decision.action = "BUY" => IsDcaBuy
    /\ (~BreakerCond /\ ~StopCond /\ ~(portfolio.btc > 0 /\ TakeProfitCond))
         => IF portfolio.cash >= config.dca_amount
            THEN IsDcaBuy ELSE decision = HoldDecision

\* swing signals with too little cash for a swing but enough for a DCA buy
C8_Witness ==
  /\ Decided /\ SwingSignals
  /\ portfolio.cash < config.swing_amount
  /\ portfolio.cash >= config.dca_amount
  /\ IsDcaBuy

Stepped == step.date # None
NotAfter(last, t) == last = None \/ Val(last) <= Val(t)
RangeDates == TestDates(df, start_date, end_date)
LoopOver == pc \in {"metrics", "done", "error"}

\* C4: at every step with timestamp T, the rows used for the indicators, for
\* the prediction and for a retraining due at that step all have Date <= T.
C4_NoFutureRows ==
  Stepped =>
    /\ NotAfter(step.indicator_last, step.date)
    /\ NotAfter(step.predict_last, step.date)
    /\ NotAfter(step.train_last, step.date)

\* C5: a step whose decision is PAUSE appends no trade and ends the loop;
\* once the loop is over no trade is appended, no decision is made and no
\* date is processed; a HOLD on a date that is not the last leaves the loop
\* running.
C5_PauseEndsRun ==
  [][/\ (pc = "loop" /\ calls' = calls + 1 /\ decision'.action = "PAUSE")
          => (portfolio' = portfolio /\ pc' = "metrics")
     /\ LoopOver
          => /\ portfolio' = portfolio
             /\ calls' = calls
             /\ i' = i
             /\ pc' \in {"done", "error"}
     /\ (pc = "loop" /\ calls' = calls + 1 /\ decision'.action = "HOLD"
         /\ i' < Len(RangeDates))
          => (pc' = "loop" /\ portfolio'.trades = portfolio.trades)]_vars

\* the run returned its metrics after a PAUSE that left a date unprocessed
C5_Witness ==
  /\ pc = "done"
  /\ decision.action = "PAUSE"
  /\ i < Len(RangeDates)
  /\ Len(portfolio.trades) > 0

\* C10: run never ends in an error; when it ends it has returned a metrics
\* result.
C10_RunReturnsMetrics ==
  /\ pc # "error"
  /\ pc = "done" => result.status = "metrics"

\* how a caller reads an early-stop entry of the returned dict:
\* metrics.get('stopped_early', False)
EarlyStopIndicator(res) ==
  IF "stopped_early" \in DOMAIN res THEN res.stopped_early ELSE FALSE

PausedRun == decision.action = "PAUSE"

\* C11: the returned result tells a run stopped by the circuit breaker from
\* a run that reached its end date: its early-stop indicator is set exactly
\* when PAUSE occurred.
C11_ResultShowsEarlyStop ==
  pc = "done" => (EarlyStopIndicator(result) <=> PausedRun)

\* the rows with Date <= t are fewer than the shortest lookback (RSI, ATR)
ShortHistory(t) == pre_rows + Cardinality(RowsUpTo(df, t)) < MinRowsRSI

\* C12: a step whose history is shorter than the minimum lookback of the
\* indicators is skipped: make_decision is not invoked and the portfolio
\* (trade log included) is unchanged by it.
C12_ShortHistorySkipped ==
  [][(pc = "loop" /\ ShortHistory(RangeDates[i + 1]))
       => (calls' = calls /\ portfolio' = portfolio)]_vars

\* C13: when predict fails at a step, or no training has succeeded, the step
\* goes on with predicted_price = current_price and direction_confidence =
\* 0.5 before the multiplier, a decision is made, and unless it is PAUSE or
\* the date was the last the loop continues with the next date.
C13_FallbackPrediction ==
  [][(pc = "loop" /\ step'.oracle \in {"failed", "untrained"})
       => /\ step'.raw.predicted_price = 100 * Val(current_price')
          /\ step'.raw.direction_confidence = 500
          /\ calls' = calls + 1
          /\ decision'.action \in {"BUY", "SELL", "HOLD", "PAUSE"}
          /\ pc' # "error"
          /\ (decision'.action # "PAUSE" /\ i' < Len(RangeDates))
               => pc' = "loop"]_vars

\* a trained oracle failed to predict, the fallback led to a DCA buy and the
\* loop goes on
C13_Witness ==
  /\ pc = "loop"
  /\ model_trained
  /\ step.oracle = "failed"
  /\ step.raw.predicted_price = 100 * Val(current_price)
  /\ decision.action = "BUY"

\* strictly ascending dates and positive prices
WellFormed(d) ==
  /\ \A k \in 1..Len(d) : d[k].Price > 0
  /\ \A k \in 1..(Len(d) - 1) : d[k].Date < d[k + 1].Date

\* C14: on a malformed series (dates not ascending, duplicate timestamps)
\* the engine fails before the first loop step: no decision is made and no
\* trade is recorded.
C14_MalformedRejected ==
  ~WellFormed(df) => (calls = 0 /\ portfolio.trades = << >>)

\* C15: a config that lacks a required key makes the construction of the
\* decision box fail, and make_decision never fails on a missing key.
C15_ConfigCheckedAtConstruction ==
  /\ pc # "key_error"
  /\ (\E key \in RequiredKeys : ~Has(config, key))
       => pc \in {"new", "construct_error"}

\* C16: every STOP_LOSS SELL realises a loss of at most 5% of the entry
\* price: (entry_price - fill price) / entry_price <= 0.05.
C16_StopLossAtMost5Percent ==
  (Decided /\ decision.strategy = "STOP_LOSS")
    => 100 * (Val(portfolio.entry_price) - Price)
         <= 5 * Val(portfolio.entry_price)

\* the multiplier (in tenths) that the fear/greed score selects
ScoreMultiplier(score) ==
  IF score < 25 THEN 12
  ELSE IF score < 40 THEN 11
  ELSE IF score <= 60 THEN 10
  ELSE IF score <= 75 THEN 9
  ELSE 7

\* C17: at every step the direction_confidence passed to make_decision is
\* min(1.0, c * m), c the oracle's or fallback confidence and m the
\* multiplier selected by that step's fear/greed score.
C17_ConfidenceMultiplier ==
  (Stepped /\ ~step.skipped) =>
    LET cm == (step.raw.direction_confidence
                 * ScoreMultiplier(sentiment.fear_greed_score)) \div 10
    IN  prediction.direction_confidence = IF cm > 1000 THEN 1000 ELSE cm

\* the train calls (step index, cutoff) due once n dates were processed:
\* the initial one (index -1) with the start date as cutoff, then one at
\* each index idx > 0 with idx mod N = 0, its cutoff the day of that step
RECURSIVE ExpectedTrains(_)
ExpectedTrains(n) ==
  IF n = 0
  THEN <<[index |-> -1, cutoff |-> DayFloor(start_date)]>>
  ELSE LET idx == n - 1
           rest == ExpectedTrains(n - 1)
       IN  IF retrain_frequency > 0 /\ idx > 0
              /\ idx % retrain_frequency = 0
           THEN Append(rest, [index |-> idx,
                              cutoff |-> DayFloor(RangeDates[n])])
           ELSE rest

TrainCalls ==
  [k \in 1..Len(train_log) |->
     [index |-> train_log[k].index, cutoff |-> train_log[k].cutoff]]

RetrainFailed ==
  /\ pc = "loop"
  /\ Len(train_log') = Len(train_log) + 1
  /\ ~train_log'[Len(train_log')].ok

\* C18: with cadence N > 0 the oracle is retrained exactly at the step
\* indices i > 0 with i mod N = 0, with that step's date as cutoff; with
\* N = 0 it is trained once, before the first step, with the start date as
\* cutoff; a failed retrain leaves the run going and the trained oracle in
\* use.
C18_RetrainCadence ==
  [][/\ pc' # "start" => TrainCalls' = ExpectedTrains(i')
     /\ RetrainFailed
          => /\ pc' \in {"loop", "metrics"}
             /\ model_trained' = model_trained
             /\ (model_trained /\ ~step'.skipped)
                  => step'.oracle \in {"ok", "failed"}]_vars

\* cadence 2: the retrain of step index 2 failed and the step predicted
\* with the oracle of the initial training
C18_Witness ==
  /\ retrain_frequency = 2
  /\ Len(train_log) = 2
  /\ train_log[1].ok
  /\ train_log[2].index = 2
  /\ ~train_log[2].ok
  /\ step.retrain
  /\ step.oracle = "ok"

SomeTrainSucceeded == \E k \in 1..Len(train_log) : train_log[k].ok

PredictInvoked == step.oracle \in {"ok", "failed"}

RetrainedThisStep ==
  /\ step.retrain
  /\ Len(train_log) > 0
  /\ train_log[Len(train_log)].index = i - 1
  /\ train_log[Len(train_log)].ok

\* C19: predict is invoked at a step only if some train call of the run
\* succeeded before it; a retrain due at a step is completed before that
\* step's predict, so a step whose retrain succeeded does call predict; and
\* without a trained oracle predict is not called and the decision is made
\* on the fallback prediction.
C19_PredictNeedsTraining ==
  /\ PredictInvoked => SomeTrainSucceeded
  /\ (RetrainedThisStep /\ ~step.skipped) => PredictInvoked
  /\ step.oracle = "untrained"
       => /\ ~SomeTrainSucceeded
          /\ step.raw = FallbackPrediction(Val(current_price))

\* the initial training failed, the retrain of step index 2 succeeded and
\* the same step's predict returned a prediction
C19_Witness ==
  /\ Len(train_log) = 2
  /\ ~train_log[1].ok
  /\ RetrainedThisStep
  /\ step.oracle = "ok"

TradeExecuted == pc = "decided" /\ pc' = "idle"

\* C20: a BUY of amount a at price p adds a / p to btc, takes a from cash
\* and sets entry_price to p whatever it was before, so after several BUYs
\* in a row entry_price is the price of the last one; last_dca_price
\* changes only on a BUY whose strategy is DCA.
C20_BuyUpdatesPortfolio ==
  [][TradeExecuted
       => /\ decision.action = "BUY"
               => /\ portfolio'.btc =
                       portfolio.btc
                         + Val(decision.amount) \div Val(current_price)
                  /\ portfolio'.cash = portfolio.cash - Val(decision.amount)
                  /\ portfolio'.entry_price = current_price
          /\ portfolio'.last_dca_price # portfolio.last_dca_price
               => /\ decision.action = "BUY"
                  /\ decision.strategy = "DCA"]_vars

\* two BUYs in a row at different prices: entry_price is the second price
C20_Witness ==
  LET n == Len(portfolio.trades)
  IN  /\ pc = "idle"
      /\ n >= 2
      /\ portfolio.trades[n - 1].action = "BUY"
      /\ portfolio.trades[n].action = "BUY"
      /\ portfolio.trades[n - 1].price # portfolio.trades[n].price
      /\ portfolio.entry_price = Some(portfolio.trades[n].price)

TakeProfitSell(amount) ==
  decision = [action |-> "SELL", strategy |-> "TAKE_PROFIT",
              amount |-> Some(amount)]

FullExitCond == ProfitOver15 /\ Gt(technical.RSI, 65)
HalfExitCond == ProfitOver10 /\ Gt(technical.RSI, 70)
EmergencyExitCond ==
  /\ Gt(technical.RSI, 75)
  /\ Lt(technical.MACD_diff, 0)
  /\ 100 * prediction.predicted_price < 95 * (100 * Price)

DecisionStep == pc = "loop" /\ calls' = calls + 1

\* one sample of the portfolio as the step left it, at the end of a history
\* in strictly ascending date order
SampleAppended ==
  LET n == Len(portfolio_history')
  IN  /\ n = Len(portfolio_history) + 1
      /\ \A k \in 1..(n - 1) : portfolio_history'[k] = portfolio_history[k]
      /\ portfolio_history'[n] =
           [date |-> Val(step'.date),
            value |-> portfolio'.cash + portfolio'.btc * Val(current_price'),
            cash |-> portfolio'.cash, btc |-> portfolio'.btc,
            price |-> Val(current_price')]
      /\ \A k \in 1..(n - 1) :
           portfolio_history'[k].date < portfolio_history'[k + 1].date

RECURSIVE UnmatchedPairs(_, _, _)
UnmatchedPairs(trades, k, open) ==
  IF k > Len(trades) THEN << >>
  ELSE IF trades[k].action = "BUY"
  THEN UnmatchedPairs(trades, k + 1, Append(open, trades[k].price))
  ELSE IF trades[k].action = "SELL" /\ open # << >>
  THEN <<[buy |-> open[Len(open)], sell |-> trades[k].price]>>
         \o UnmatchedPairs(trades, k + 1, SubSeq(open, 1, Len(open) - 1))
  ELSE UnmatchedPairs(trades, k + 1, open)

\* C23: the reported win_rate pairs each SELL of the trade log with a
\* preceding BUY not yet matched to another SELL; every SELL with such a BUY
\* before it forms a pair, a pair wins iff its sell price is above its buy
\* price, win_rate = wins / pairs, and 0 without pairs.
C23_WinRateOverUnmatchedPairs ==
  (pc = "closed" /\ result.status = "metrics")
    => result.win_rate
         = WinRateOf(UnmatchedPairs(portfolio.trades, 1, << >>))

\* C24: every run reports buy_and_hold_return = (price at the end date -
\* price at the start date) / price at the start date, over the run's own
\* date range, whatever the trades, also for a run without trades.
C24_BuyAndHoldBenchmark ==
  (/\ pc = "done"
   /\ result.status = "metrics"
   /\ HasRowAt(df, start_date)
   /\ HasRowAt(df, end_date))
    => result.buy_and_hold_return
         = (1000 * (PriceAt(df, end_date) - PriceAt(df, start_date)))
             \div PriceAt(df, start_date)

\* the scores of the fear/greed records dated at or before t
ScoresUpTo(fg, t) ==
  {fg[k].value : k \in {j \in 1..Len(fg) : fg[j].timestamp <= t}}

\* C25: the sentiment used at a step with timestamp T comes only from
\* fear/greed records dated at or before T, or from the RSI proxy of that
\* step's indicators; no record dated after T is selected.
C25_NoFutureSentiment ==
  (Stepped /\ ~step.skipped)
    => sentiment.fear_greed_score
         \in ScoresUpTo(fear_greed_data, Val(step.date))
               \cup {RsiProxy(technical.RSI)}

RequestedStart == MaxDate(df) - Months * DaysPerMonth * Day

\* C26: when the requested start date precedes the earliest date of the
\* price series, the backtest is clamped to the earliest available date
\* with a limited-data warning, and the run and its metrics complete
\* without a fatal error.
C26_ClampedRunCompletes ==
  (pc # "main" /\ RequestedStart < MinDate(df))
    => /\ limited_data
       /\ start_date = DayFloor(MinDate(df))
       /\ pc # "error"
       /\ pc = "done" => result.status = "metrics"

LogExtendedByOne ==
  LET n == Len(portfolio.trades)
  IN  /\ Len(portfolio'.trades) = n + 1
      /\ SubSeq(portfolio'.trades, 1, n) = portfolio.trades
      /\ portfolio'.trades[n + 1].action = decision.action
      /\ portfolio'.trades[n + 1].price = Val(current_price)

LogKept ==
  /\ Len(portfolio'.trades) >= Len(portfolio.trades)
  /\ SubSeq(portfolio'.trades, 1, Len(portfolio.trades)) = portfolio.trades

\* C27: the trade log only grows: an executed BUY or SELL appends exactly
\* one record at the end and no earlier record is changed or removed;
\* executing a HOLD or PAUSE decision leaves cash, btc, entry_price,
\* last_dca_price and the trade log unchanged.
C27_TradeLogAppendOnly ==
  [][/\ LogKept
     /\ TradeExecuted
          => IF decision.action \in {"BUY", "SELL"}
             THEN LogExtendedByOne
             ELSE portfolio' = portfolio]_vars

\* a PAUSE decision was executed on a portfolio with two trades in its log
C27_Witness ==
  /\ pc = "idle"
  /\ decision.action = "PAUSE"
  /\ Len(portfolio.trades) = 2

LedgerTrade ==
  /\ pc = "trading"
  /\ calls' = calls + 1
  /\ decision'.action \in {"BUY", "SELL"}

\* C28: execute_trade conserves the portfolio value at the fill price: for
\* every BUY or SELL produced by make_decision, cash + btc * current_price
\* is the same right before and right after the trade.
C28_ValueConserved ==
  [][LedgerTrade
       => portfolio'.cash + portfolio'.btc * Val(current_price')
            = portfolio.cash + portfolio.btc * Val(current_price')]_vars

LedgerDecision == pc = "trading" /\ calls' = calls + 1

\* C29: every SELL decision of make_decision has 0 < amount <= btc of the
\* portfolio it was made on, so btc is never negative after make_decision
\* and execute_trade, and a backtest step appends at most one trade.
C29_SellWithinPosition ==
  [][LedgerDecision
       => /\ decision'.action = "SELL"
               => /\ 0 < Val(decision'.amount)
                  /\ Val(decision'.amount) <= portfolio.btc
          /\ portfolio'.btc >= 0
          /\ Len(portfolio'.trades) <= Len(portfolio.trades) + 1]_vars

\* a half exit was executed: part of the position is left
C29_Witness ==
  LET n == Len(portfolio.trades)
  IN  /\ pc = "trading"
      /\ decision.action = "SELL"
      /\ n > 0
      /\ portfolio.trades[n].action = "SELL"
      /\ portfolio.trades[n].btc = Val(decision.amount)
      /\ portfolio.btc > 0

LiveDecided == decision # NoDecision

\* C30: in LiveTrader.trading_cycle the portfolio handed to the decision box
\* is rebuilt every cycle with entry_price equal to the current price (or
\* btc = 0 on a fetch error), so with ATR >= 0 and k_atr >= 0 make_decision
\* never returns a STOP_LOSS SELL in live mode, however far the price fell.
C30_NoStopLossInLiveMode ==
  LiveDecided
    => /\ portfolio.entry_price = current_price \/ portfolio.btc = 0
       /\ decision.strategy # "STOP_LOSS"

\* a cycle at the lowest price on an account that holds BTC, decided with
\* ATR 0 (the stop is the entry price itself): the decision is HOLD
C30_Witness ==
  /\ pc = "live"
  /\ portfolio.btc > 0
  /\ current_price = Some(2)
  /\ portfolio.entry_price = Some(2)
  /\ technical.ATR = Some(0)
  /\ decision = HoldDecision

====
